---- MODULE Spec2Model ----
(***************************************************************************)
(* Registration lifecycle of the Community Pulse API (backend/main.py):    *)
(* one event, its registrations, its attendee counter and the              *)
(* notifications written by the four registration handlers                 *)
(*   POST /events/{id}/register             register_for_event             *)
(*   POST /events/{id}/interest             mark_interest                  *)
(*   POST /events/{id}/confirm-registration confirm_registration           *)
(*   POST /events/{id}/cancel-registration  cancel_registration            *)
(*                                                                         *)
(* Spec     runs every handler as one atomic step (requests one by one).   *)
(* SpecConc runs the same handlers as the sequence of database             *)
(*          interactions each request performs (SELECT event, SELECT       *)
(*          registration, flush + COMMIT), interleaved between requests.   *)
(*                                                                         *)
(* Time is counted in hours.  Attendee names are sequences of characters.  *)
(* The attendees column holds json.dumps(list); the model stores the list. *)
(***************************************************************************)
EXTENDS Integers, Sequences, FiniteSets, TLC

VARIABLES event, regs, notifications, reqs

vars == <<event, regs, notifications, reqs>>

(***************************************************************************)
(* Bounds of the model.                                                    *)
(***************************************************************************)
MaxLen == 3
MaxCount == 3
NumReq == 2

Users == {1, 2}
Req == 1..NumReq

(***************************************************************************)
(* Program constants.                                                      *)
(***************************************************************************)
MaxAttendees == 10
BufferHours == 24
ReminderLeadHours == 24

\* The readings of the server clock (now = datetime.utcnow()) a request can
\* get; the clock is an input of each request.
Instants == {0, 24, 48, 72, 96, 120, 144}

\* The dates an organizer gives the event in create_event.
EventDates == {[registration_start |-> 48, registration_end |-> 72, start_date |-> 96]}

(***************************************************************************)
(* Users and request payloads.                                             *)
(***************************************************************************)
\* A string is the sequence of the code points of its characters (ord).
\* The username of user 1 is the string u1.
Username(u) == <<117, 48 + u>>

\* the name of one letter a
NameA == <<97>>

Repeat(x, n) == [i \in 1..n |-> x]

\* Bodies of register and confirm: no name, one name, MaxLen names, one name
\* more than the validator allows, a name of a space, a vertical tab and an
\* ideographic space, an empty name among others; counts 0, 1 and MaxCount.
AttendeeLists ==
    {Repeat(NameA, n) : n \in {0, 1, MaxLen, MaxAttendees + 1}}
        \cup {<<<<32, 11, 12288>>>>, <<NameA, <<>>>>}

Counts == {0, 1, MaxCount}

Payloads == [number_of_attendees : Counts, attendees : AttendeeLists]

NoPayload == [number_of_attendees |-> 0, attendees |-> <<>>]

(***************************************************************************)
(* EventRegistrationCreate: the request-body model of register and confirm.*)
(***************************************************************************)
\* The characters str.strip() removes, those str.isspace() is true of:
\* U+0009..U+000D, U+001C..U+001F, U+0020, U+0085, U+00A0, U+1680,
\* U+2000..U+200A, U+2028, U+2029, U+202F, U+205F, U+3000.
Whitespace ==
    (9..13) \cup (28..32) \cup {133, 160, 5760} \cup (8192..8202)
        \cup {8232, 8233, 8239, 8287, 12288}

\* name.strip() is the empty string
IsBlank(name) == \A i \in 1..Len(name) : name[i] \in Whitespace

\* @validator("attendees")
validate_attendees(v) ==
    /\ \A i \in 1..Len(v) : ~IsBlank(v[i])
    /\ ~(Len(v) > MaxAttendees)

\* @validator("number_of_attendees"); values holds the fields validated before
validate_number_of_attendees(v, values) ==
    ~("attendees" \in DOMAIN values /\ v # Len(values["attendees"]))

\* Fields are validated in declaration order: number_of_attendees, then
\* attendees; the validator of a field sees the fields validated before it.
EventRegistrationCreate(p) ==
    LET EmptyValues == [f \in {} |-> <<>>]
    IN  /\ p.number_of_attendees >= 1
        /\ validate_number_of_attendees(p.number_of_attendees, EmptyValues)
        /\ Len(p.attendees) >= 1
        /\ validate_attendees(p.attendees)

(***************************************************************************)
(* Rows.  A registration row carries its primary key; NoRow and NoEvent    *)
(* are the None that Query.first() returns when nothing matches.           *)
(***************************************************************************)
NoEvent == [id |-> 0, is_approved |-> FALSE, attendees_count |-> 0,
            registration_start |-> 0, registration_end |-> 0, start_date |-> 0]

NoRow == [id |-> 0, user_id |-> 0, status |-> "none",
          attendees |-> <<>>, number_of_attendees |-> 0]

\* db.query(EventRegistration).filter(event_id == .., user_id == ..).first():
\* LIMIT 1 without ORDER BY, any matching row may be the one returned.
first(rs, u) ==
    LET match == {i \in 1..Len(rs) : rs[i].user_id = u}
    IN  IF match = {} THEN {NoRow} ELSE {rs[i] : i \in match}

Response(op, u, status, detail) ==
    [op |-> op, user |-> u, status |-> status, detail |-> detail]

NoResponse == Response("none", 0, 0, "")

\* What a handler holds at db.commit(): the Event object as it loaded it
\* (ev) and the attendees_count it assigned (count), the registration as it
\* loaded it (ex) and as it left it (row), the row it added, the notification
\* it will add.
NoWrites == [ev |-> NoEvent, count |-> 0,
             ex |-> NoRow, row |-> NoRow,
             ins |-> <<>>, notify |-> {}]

\* reminder_date = event.start_date - timedelta(days=1); if reminder_date > now
reminder(ev, u, t) ==
    IF ev.start_date - ReminderLeadHours > t
    THEN {[user_id |-> u, notification_type |-> "reminder"]}
    ELSE {}

(***************************************************************************)
(* The checks each handler makes on the Event it fetched and on the        *)
(* registration it queried: "pass", or the detail of the HTTPException.    *)
(***************************************************************************)
register_event_check(ev, t) ==
    IF ev = NoEvent
    THEN "Event not found"
    ELSE IF ~ev.is_approved
    THEN "Cannot register for an unapproved event"
    ELSE IF t < ev.registration_start \/ t > ev.registration_end
    THEN "Registration is not open for this event"
    ELSE "pass"

register_existing_check(ex) ==
    IF ex # NoRow
    THEN "You are already registered for this event"
    ELSE "pass"

\* mutant: the approval of the event is not looked at
interest_event_check_no_approval(ev) ==
    IF ev = NoEvent
    THEN "Event not found"
    ELSE "pass"

interest_event_check(ev) ==
    IF ev = NoEvent
    THEN "Event not found"
    ELSE IF ~ev.is_approved
    THEN "Cannot show interest in an unapproved event"
    ELSE "pass"

\* mutant: only a row that is still interested is in the way
interest_existing_check_interested_only(ex) ==
    IF ex # NoRow /\ ex.status = "interested"
    THEN "You are already interested or registered for this event"
    ELSE "pass"

interest_existing_check(ex) ==
    IF ex # NoRow /\ ex.status # "cancelled"
    THEN "You are already interested or registered for this event"
    ELSE "pass"

\* mutant: the window is taken without its buffer
confirm_event_check_no_buffer(ev, t) ==
    IF ev = NoEvent
    THEN "Event not found"
    ELSE IF t < ev.registration_start \/ t > ev.registration_end
    THEN "Registration is not open for this event"
    ELSE "pass"

confirm_event_check(ev, t) ==
    LET registration_start_with_buffer == ev.registration_start - BufferHours
        registration_end_with_buffer == ev.registration_end + BufferHours
    IN  IF ev = NoEvent
        THEN "Event not found"
        ELSE IF \/ t < registration_start_with_buffer
                \/ t > registration_end_with_buffer
        THEN "Registration is not open for this event"
        ELSE "pass"

\* mutant: a cancelled registration can be confirmed
confirm_existing_check_allows_cancelled(ex) ==
    IF ex = NoRow
    THEN "You must first mark interest in this event"
    ELSE IF ex.status = "registered"
    THEN "You are already registered for this event"
    ELSE "pass"

confirm_existing_check(ex) ==
    IF ex = NoRow \/ ex.status = "cancelled"
    THEN "You must first mark interest in this event"
    ELSE IF ex.status = "registered"
    THEN "You are already registered for this event"
    ELSE "pass"

\* mutant: a cancelled registration is taken for an active one
cancel_existing_check_no_status(ex) ==
    IF ex = NoRow
    THEN "Registration not found"
    ELSE "pass"

cancel_existing_check(ex) ==
    IF ex = NoRow \/ ex.status = "cancelled"
    THEN "Registration not found"
    ELSE "pass"

event_check(op, ev, t) ==
    CASE op = "register" -> register_event_check(ev, t)
      [] op = "interest" -> interest_event_check(ev)
      [] op = "confirm"  -> confirm_event_check(ev, t)
      [] OTHER           -> "pass"

registration_check(op, ex) ==
    CASE op = "register" -> register_existing_check(ex)
      [] op = "interest" -> interest_existing_check(ex)
      [] op = "confirm"  -> confirm_existing_check(ex)
      [] OTHER           -> cancel_existing_check(ex)

\* status_code of the HTTPException with that detail
status_code(detail) ==
    IF detail \in {"Event not found", "Registration not found"} THEN 404 ELSE 400

(***************************************************************************)
(* What each handler writes once its checks passed.  ev and ex are the     *)
(* objects the request loaded, nid the primary key of a row it inserts.    *)
(***************************************************************************)
register_writes(ev, u, p, t, nid) ==
    [NoWrites EXCEPT
        !.ins = <<[id |-> nid, user_id |-> u, status |-> "registered",
                   attendees |-> p.attendees,
                   number_of_attendees |-> p.number_of_attendees]>>,
        !.ev = ev,
        !.count = ev.attendees_count + p.number_of_attendees,
        !.notify = reminder(ev, u, t)]

\* mutant: reactivation takes the row straight to registered
interest_writes_reactivates_registered(ev, ex, u, nid) ==
    IF ex # NoRow
    THEN [NoWrites EXCEPT
            !.ex = ex,
            !.row = [ex EXCEPT !.status = "registered"],
            !.ev = ev,
            !.count = ev.attendees_count + 1]
    ELSE [NoWrites EXCEPT
            !.ins = <<[id |-> nid, user_id |-> u, status |-> "interested",
                       attendees |-> <<Username(u)>>,
                       number_of_attendees |-> 1]>>,
            !.ev = ev,
            !.count = ev.attendees_count + 1]

interest_writes(ev, ex, u, nid) ==
    IF ex # NoRow
    THEN [NoWrites EXCEPT
            !.ex = ex,
            !.row = [ex EXCEPT !.status = "interested"],
            !.ev = ev,
            !.count = ev.attendees_count + 1]
    ELSE [NoWrites EXCEPT
            !.ins = <<[id |-> nid, user_id |-> u, status |-> "interested",
                       attendees |-> <<Username(u)>>,
                       number_of_attendees |-> 1]>>,
            !.ev = ev,
            !.count = ev.attendees_count + 1]

\* mutant: the count of the interested row is not taken off the counter
confirm_writes_no_subtract(ev, ex, u, p, t) ==
    [NoWrites EXCEPT
        !.ex = ex,
        !.row = [ex EXCEPT !.status = "registered",
                           !.attendees = p.attendees,
                           !.number_of_attendees = p.number_of_attendees],
        !.ev = ev,
        !.count = ev.attendees_count + p.number_of_attendees,
        !.notify = reminder(ev, u, t)]

confirm_writes(ev, ex, u, p, t) ==
    LET old_attendees_count == ex.number_of_attendees
    IN  [NoWrites EXCEPT
            !.ex = ex,
            !.row = [ex EXCEPT !.status = "registered",
                               !.attendees = p.attendees,
                               !.number_of_attendees = p.number_of_attendees],
            !.ev = ev,
            !.count = (ev.attendees_count - old_attendees_count)
                          + p.number_of_attendees,
            !.notify = reminder(ev, u, t)]

Max(a, b) == IF a >= b THEN a ELSE b

cancel_writes(ev, ex) ==
    [NoWrites EXCEPT
        !.ex = ex,
        !.row = [ex EXCEPT !.status = "cancelled"],
        !.ev = ev,
        !.count = Max(0, ev.attendees_count - ex.number_of_attendees)]

writes(op, ev, ex, u, p, t, nid) ==
    CASE op = "register" -> register_writes(ev, u, p, t, nid)
      [] op = "interest" -> interest_writes(ev, ex, u, nid)
      [] op = "confirm"  -> confirm_writes(ev, ex, u, p, t)
      [] OTHER           -> cancel_writes(ev, ex)

(***************************************************************************)
(* db.commit(): the flush sends an UPDATE of the columns whose value is    *)
(* not the one the session loaded, and an INSERT of the added row.  A      *)
(* column assigned the value it was loaded with is not sent, and the       *)
(* stored value, whatever another session made of it, stays.               *)
(***************************************************************************)
commit_event(e, w) ==
    IF w.count # w.ev.attendees_count
    THEN [e EXCEPT !.attendees_count = w.count]
    ELSE e

commit_regs(rs, w) ==
    LET updated ==
            [i \in 1..Len(rs) |->
                IF rs[i].id # w.ex.id THEN rs[i]
                ELSE [rs[i] EXCEPT
                        !.status = IF w.row.status # w.ex.status
                                   THEN w.row.status ELSE @,
                        !.attendees = IF w.row.attendees # w.ex.attendees
                                      THEN w.row.attendees ELSE @,
                        !.number_of_attendees =
                            IF w.row.number_of_attendees # w.ex.number_of_attendees
                            THEN w.row.number_of_attendees ELSE @]]
    IN  updated \o w.ins

commit_notifications(ns, w) == ns \cup w.notify

(***************************************************************************)
(* State after construction: create_event has stored the event with        *)
(* attendees_count 0, approved when its organizer is a verified organizer. *)
(***************************************************************************)
IdleRequest == [op |-> "none", user |-> 0, payload |-> NoPayload, pc |-> "idle",
                ev |-> NoEvent,
                t |-> 0, ex |-> NoRow, resp |-> NoResponse]

Init ==
    /\ \E d \in EventDates, a \in BOOLEAN :
          event = [id |-> 1, is_approved |-> a, attendees_count |-> 0,
                   registration_start |-> d.registration_start,
                   registration_end |-> d.registration_end,
                   start_date |-> d.start_date]
    /\ regs = <<>>
    /\ notifications = {}
    /\ reqs = [r \in Req |-> IdleRequest]

\* PUT /admin/events/{event_id}/approve
approve_event ==
    /\ event # NoEvent
    /\ ~event.is_approved
    /\ event' = [event EXCEPT !.is_approved = TRUE]
    /\ UNCHANGED <<regs, notifications, reqs>>

(***************************************************************************)
(* The organizer's and the admin's mutations of the event.  caller is who  *)
(* sends the request; nw whether the INSERT of the notifications goes      *)
(* through.  notifications is a set: it tells which user holds a           *)
(* notification of which type, not how many.                               *)
(***************************************************************************)
Callers == {"organizer", "verified_organizer", "admin", "other"}

\* for registration in event.registrations: one notification per row
registrants(rs, type) ==
    {[user_id |-> rs[i].user_id, notification_type |-> type] : i \in 1..Len(rs)}

\* The date fields of the form of update_event: a field is left out (None
\* or the empty string), holds the ISO text of an hour, or holds a text that
\* datetime.fromisoformat rejects.
NoField == -1

Malformed == -2

NoForm == [start_date |-> NoField, registration_start |-> NoField,
           registration_end |-> NoField]

\* No field; a later registration_end; an earlier and a later start_date; a
\* window whose start comes after its end; a start_date that does not parse.
Forms ==
    {NoForm,
     [NoForm EXCEPT !.registration_end = 120],
     [NoForm EXCEPT !.start_date = 48],
     [NoForm EXCEPT !.start_date = 240],
     [NoForm EXCEPT !.registration_start = 72, !.registration_end = 48],
     [NoForm EXCEPT !.start_date = Malformed]}

\* if field: event.column = datetime.fromisoformat(field)
assign(old, field) == IF field = NoField THEN old ELSE field

\* PUT /events/{event_id}: the dates given in the form are assigned, with no
\* check of their order; the event is committed, then the update
\* notifications are added and committed.  The other form fields (title,
\* description, location, category, end_date, image) change columns no
\* registration handler reads.
update_event_out(db, caller, form, nw) ==
    LET rejected(status, detail) ==
            [event |-> db.event, regs |-> db.regs,
             notifications |-> db.notifications,
             resp |-> Response("update", 0, status, detail)]
        dated == [db.event EXCEPT
                    !.start_date = assign(@, form.start_date),
                    !.registration_start = assign(@, form.registration_start),
                    !.registration_end = assign(@, form.registration_end)]
        updated == IF caller = "organizer"
                   THEN [dated EXCEPT !.is_approved = FALSE]
                   ELSE dated
        notify == registrants(db.regs, "update")
    IN  IF db.event = NoEvent THEN rejected(404, "Event not found")
        ELSE IF caller = "other"
        THEN rejected(403, "Not authorized to update this event")
        ELSE IF Malformed \in {form.start_date, form.registration_start,
                               form.registration_end}
        THEN rejected(500, "Internal Server Error")
        ELSE IF notify # {} /\ ~nw
        THEN [event |-> updated, regs |-> db.regs,
              notifications |-> db.notifications,
              resp |-> Response("update", 0, 500, "Internal Server Error")]
        ELSE [event |-> updated, regs |-> db.regs,
              notifications |-> db.notifications \cup notify,
              resp |-> Response("update", 0, 200, "")]

\* DELETE /events/{event_id}: the cancellation notifications and the delete
\* go in one commit.  Deleting the event deletes its registrations
\* (cascade="all, delete-orphan") and every notification that references it
\* (ondelete="CASCADE"), the ones just added included; a failed INSERT rolls
\* the whole commit back.
delete_event_out(db, caller, nw) ==
    LET rejected(status, detail) ==
            [event |-> db.event, regs |-> db.regs,
             notifications |-> db.notifications,
             resp |-> Response("delete", 0, status, detail)]
        notify == registrants(db.regs, "cancellation")
    IN  IF db.event = NoEvent THEN rejected(404, "Event not found")
        ELSE IF caller = "other"
        THEN rejected(403, "Not authorized to delete this event")
        ELSE IF notify # {} /\ ~nw
        THEN rejected(500, "Internal Server Error")
        ELSE [event |-> NoEvent, regs |-> <<>>,
              notifications |-> {n \in db.notifications \cup notify : FALSE},
              resp |-> Response("delete", 0, 200, "")]

(***************************************************************************)
(* Spec: a request runs from its first statement to its response with no   *)
(* other request in between.  A request that is refused leaves the         *)
(* database as it was; run gives its response.                             *)
(***************************************************************************)
NeedsBody(op) == op \in {"register", "confirm"}

\* register and confirm read the clock once, after fetching the event; a
\* request whose body is rejected never reaches the handler.
ReadsClock(op) == op \in {"register", "confirm"}

Clock(op, p) ==
    IF ReadsClock(op) /\ EventRegistrationCreate(p) THEN Instants ELSE {0}

\* The outcomes of the INSERT of a notification: written (TRUE) or failed
\* with a database error (FALSE); a request that writes none has no choice.
NotificationWrite(op, ev, p, t) ==
    IF NeedsBody(op) /\ EventRegistrationCreate(p) /\ reminder(ev, 0, t) # {}
    THEN BOOLEAN
    ELSE {TRUE}

\* What the client gets once the handler returned.  register_for_event
\* declares response_model=EventRegistrationResponse, whose attendees is a
\* List[str], and returns the row, whose attendees is the JSON string of the
\* names: the response fails validation and the client gets a 500, after the
\* commits.  The other handlers declare no response_model.
returned(op) ==
    IF op = "register"
    THEN [status |-> 500, detail |-> "Internal Server Error"]
    ELSE [status |-> 200, detail |-> ""]

\* mutant: the registration and its reminder are committed together
serve_one_commit(op, db, ex, u, p, t, nw) ==
    LET ec == event_check(op, db.event, t)
        rc == registration_check(op, ex)
        w  == writes(op, db.event, ex, u, p, t, Len(db.regs) + 1)
        rejected(status, detail) ==
            [event |-> db.event, regs |-> db.regs,
             notifications |-> db.notifications,
             resp |-> Response(op, u, status, detail)]
    IN  IF NeedsBody(op) /\ ~EventRegistrationCreate(p)
        THEN rejected(422, "validation error")
        ELSE IF ec # "pass" THEN rejected(status_code(ec), ec)
        ELSE IF rc # "pass" THEN rejected(status_code(rc), rc)
        ELSE IF w.notify # {} /\ ~nw
        THEN rejected(500, "Internal Server Error")
        ELSE [event |-> commit_event(db.event, w),
              regs |-> commit_regs(db.regs, w),
              notifications |-> commit_notifications(db.notifications, w),
              resp |-> Response(op, u, returned(op).status, returned(op).detail)]

\* One request served from its first statement to its response: db is the
\* database it finds, ex the row its query returns, t its clock reading, nw
\* whether the INSERT of its notification goes through.  The registration
\* and the counter are committed first; the reminder is added and committed
\* after, and an error of that second commit leaves the handler as a 500.
serve(op, db, ex, u, p, t, nw) ==
    LET ec == event_check(op, db.event, t)
        rc == registration_check(op, ex)
        w  == writes(op, db.event, ex, u, p, t, Len(db.regs) + 1)
        rejected(status, detail) ==
            [event |-> db.event, regs |-> db.regs,
             notifications |-> db.notifications,
             resp |-> Response(op, u, status, detail)]
    IN  IF NeedsBody(op) /\ ~EventRegistrationCreate(p)
        THEN rejected(422, "validation error")
        ELSE IF ec # "pass" THEN rejected(status_code(ec), ec)
        ELSE IF rc # "pass" THEN rejected(status_code(rc), rc)
        ELSE IF w.notify # {} /\ ~nw
        THEN [event |-> commit_event(db.event, w),
              regs |-> commit_regs(db.regs, w),
              notifications |-> db.notifications,
              resp |-> Response(op, u, 500, "Internal Server Error")]
        ELSE [event |-> commit_event(db.event, w),
              regs |-> commit_regs(db.regs, w),
              notifications |-> commit_notifications(db.notifications, w),
              resp |-> Response(op, u, returned(op).status, returned(op).detail)]

\* The request when every write goes through.
run(op, db, ex, u, p, t) == serve(op, db, ex, u, p, t, TRUE)

Database == [event |-> event, regs |-> regs, notifications |-> notifications]

\* The database after the request; its response goes to the caller.
Served(out) ==
    /\ event' = out.event
    /\ regs' = out.regs
    /\ notifications' = out.notifications
    /\ UNCHANGED reqs

\* POST /events/{event_id}/register
register_for_event(u, p, t) ==
    \E ex \in first(regs, u), nw \in NotificationWrite("register", event, p, t) :
        \E out \in {serve("register", Database, ex, u, p, t, nw)} : Served(out)

\* POST /events/{event_id}/interest
mark_interest(u) ==
    \E ex \in first(regs, u) :
        \E out \in {run("interest", Database, ex, u, NoPayload, 0)} : Served(out)

\* POST /events/{event_id}/confirm-registration
confirm_registration(u, p, t) ==
    \E ex \in first(regs, u), nw \in NotificationWrite("confirm", event, p, t) :
        \E out \in {serve("confirm", Database, ex, u, p, t, nw)} : Served(out)

\* POST /events/{event_id}/cancel-registration
cancel_registration(u) ==
    \E ex \in first(regs, u) :
        \E out \in {run("cancel", Database, ex, u, NoPayload, 0)} : Served(out)

Next ==
    \/ approve_event
    \/ \E u \in Users, p \in Payloads :
          \E t \in Clock("register", p) : register_for_event(u, p, t)
    \/ \E u \in Users : mark_interest(u)
    \/ \E u \in Users, p \in Payloads :
          \E t \in Clock("confirm", p) : confirm_registration(u, p, t)
    \/ \E u \in Users : cancel_registration(u)

Spec == Init /\ [][Next]_vars

update_event(caller, form, nw) ==
    \E out \in {update_event_out(Database, caller, form, nw)} : Served(out)

delete_event(caller, nw) ==
    \E out \in {delete_event_out(Database, caller, nw)} : Served(out)

\* PUT /admin/events/{event_id}/reject: the event is deleted, and with it
\* its registrations and notifications.
reject_event ==
    /\ event # NoEvent
    /\ event' = NoEvent
    /\ regs' = <<>>
    /\ notifications' = {}
    /\ UNCHANGED reqs

\* The bodies sent while the event is being changed: one name or none, a
\* blank name, each with the count 1.
EventPayloads ==
    {p \in Payloads : p.number_of_attendees = 1 /\ Len(p.attendees) <= 1}

\* The registration handlers together with the mutations of the event.
NextEvents ==
    \/ approve_event
    \/ \E u \in Users, p \in EventPayloads :
          \E t \in Clock("register", p) : register_for_event(u, p, t)
    \/ \E u \in Users : mark_interest(u)
    \/ \E u \in Users, p \in EventPayloads :
          \E t \in Clock("confirm", p) : confirm_registration(u, p, t)
    \/ \E u \in Users : cancel_registration(u)
    \/ \E caller \in Callers, form \in Forms, nw \in BOOLEAN :
          update_event(caller, form, nw)
    \/ \E caller \in Callers, nw \in BOOLEAN : delete_event(caller, nw)
    \/ reject_event

SpecEvents == Init /\ [][NextEvents]_vars

\* The interest / confirm / cancel lifecycle alone (no direct registration).
NextLifecycle ==
    \/ approve_event
    \/ \E u \in Users : mark_interest(u)
    \/ \E u \in Users, p \in Payloads :
          \E t \in Clock("confirm", p) : confirm_registration(u, p, t)
    \/ \E u \in Users : cancel_registration(u)

SpecLifecycle == Init /\ [][NextLifecycle]_vars

(***************************************************************************)
(* SpecConc: requests served concurrently.  Each request has its own       *)
(* session (SessionLocal()), holds the objects it loaded and writes at its *)
(* db.commit(); the statements of different requests interleave.  A slot   *)
(* of reqs serves one request.                                             *)
(***************************************************************************)
Ops == {"register", "interest", "confirm", "cancel"}

Finish(r, op, u, status, detail) ==
    reqs' = [reqs EXCEPT ![r].pc = "done",
                         ![r].resp = Response(op, u, status, detail)]

\* The request arrives; FastAPI validates the body before calling the handler.
Submit(r, op, u, p) ==
    /\ reqs[r].pc = "idle"
    /\ IF NeedsBody(op) /\ ~EventRegistrationCreate(p)
       THEN reqs' = [reqs EXCEPT ![r].op = op, ![r].user = u, ![r].pc = "done",
                                 ![r].resp = Response(op, u, 422, "validation error")]
       ELSE reqs' = [reqs EXCEPT ![r].op = op, ![r].user = u,
                                 ![r].payload = IF NeedsBody(op) THEN p ELSE NoPayload,
                                 ![r].pc = IF op = "cancel" THEN "registration"
                                                            ELSE "event"]
    /\ UNCHANGED <<event, regs, notifications>>

\* event = db.query(Event)...first(), or event = registration.event in
\* cancel_registration; then the clock reading and the checks on the event.
FetchEvent(r) ==
    LET q == reqs[r]
    IN  /\ q.pc = "event"
        /\ \E t \in Clock(q.op, q.payload) :
              LET ec == event_check(q.op, event, t)
              IN  IF ec # "pass"
                  THEN Finish(r, q.op, q.user, status_code(ec), ec)
                  ELSE reqs' = [reqs EXCEPT ![r].ev = event, ![r].t = t,
                                  ![r].pc = IF q.op = "cancel" THEN "commit"
                                                               ELSE "registration"]
        /\ UNCHANGED <<event, regs, notifications>>

\* db.query(EventRegistration).filter(...).first() and the checks on it.
QueryRegistration(r) ==
    LET q == reqs[r]
    IN  /\ q.pc = "registration"
        /\ \E ex \in first(regs, q.user) :
              LET rc == registration_check(q.op, ex)
              IN  IF rc # "pass"
                  THEN Finish(r, q.op, q.user, status_code(rc), rc)
                  ELSE reqs' = [reqs EXCEPT ![r].ex = ex,
                                  ![r].pc = IF q.op = "cancel" THEN "event"
                                                               ELSE "commit"]
        /\ UNCHANGED <<event, regs, notifications>>

\* The handler changes its objects and commits.  register and confirm go
\* on to their reminder when one is due; the others, and they when none is
\* due, return.
Commit(r) ==
    LET q == reqs[r]
        w == writes(q.op, q.ev, q.ex, q.user, q.payload, q.t, Len(regs) + 1)
    IN  /\ q.pc = "commit"
        /\ event' = commit_event(event, w)
        /\ regs' = commit_regs(regs, w)
        /\ notifications' = notifications
        /\ IF w.notify # {}
           THEN reqs' = [reqs EXCEPT ![r].pc = "reminder"]
           ELSE Finish(r, q.op, q.user, returned(q.op).status, returned(q.op).detail)

\* db.add(notification); db.commit(): the second commit of register and
\* confirm, which other requests can come before.  The dates of the event,
\* read again after the first commit, are the ones the request loaded: no
\* request changes them.
CommitReminder(r) ==
    LET q == reqs[r]
    IN  /\ q.pc = "reminder"
        /\ \E nw \in BOOLEAN :
              IF ~nw
              THEN /\ notifications' = notifications
                   /\ Finish(r, q.op, q.user, 500, "Internal Server Error")
              ELSE /\ notifications' = notifications \cup reminder(q.ev, q.user, q.t)
                   /\ Finish(r, q.op, q.user, returned(q.op).status,
                             returned(q.op).detail)
        /\ UNCHANGED <<event, regs>>

NextConc ==
    \/ approve_event
    \/ \E r \in Req, op \in Ops, u \in Users, p \in Payloads : Submit(r, op, u, p)
    \/ \E r \in Req : FetchEvent(r)
    \/ \E r \in Req : QueryRegistration(r)
    \/ \E r \in Req : Commit(r)
    \/ \E r \in Req : CommitReminder(r)

SpecConc == Init /\ [][NextConc]_vars

(***************************************************************************)
(* Vocabulary of the properties.                                           *)
(***************************************************************************)
Active(row) == row.status \in {"interested", "registered"}

RowsOf(rs, u) == {i \in 1..Len(rs) : rs[i].user_id = u}

ActiveRowsOf(rs, u) == {i \in RowsOf(rs, u) : Active(rs[i])}

RECURSIVE ActiveSumUpTo(_, _)
ActiveSumUpTo(rs, n) ==
    IF n = 0 THEN 0
    ELSE ActiveSumUpTo(rs, n - 1)
            + (IF Active(rs[n]) THEN rs[n].number_of_attendees ELSE 0)

\* sum of number_of_attendees over the interested and registered rows
ActiveSum(rs) == ActiveSumUpTo(rs, Len(rs))

InWindow(ev, t) == ev.registration_start <= t /\ t <= ev.registration_end

Conflict(r) ==
    /\ r.status = 400
    /\ r.detail \in {"You are already interested or registered for this event",
                     "You are already registered for this event"}

(***************************************************************************)
(* C1.  After any sequence of markInterest, confirmRegistration and        *)
(* cancelRegistration calls by one user on the event, attendees_count      *)
(* equals the sum of number_of_attendees over the interested and           *)
(* registered registrations.  (SpecLifecycle; fails on the code.)          *)
(***************************************************************************)
C1_CounterEqualsActiveSum ==
    Len(regs) <= 1 => event.attendees_count = ActiveSum(regs)

(***************************************************************************)
(* C2.  Under any interleaving of concurrent markInterest and              *)
(* registerDirect requests there is at most one interested or registered   *)
(* registration per (event, user) pair.  (SpecConc; fails on the code.)    *)
(***************************************************************************)
C2_AtMostOneActivePerPair ==
    \A u \in Users : Cardinality(ActiveRowsOf(regs, u)) <= 1

(***************************************************************************)
(* C3.  Two concurrent markInterest requests of one user with no prior     *)
(* registration (they are the only requests served, and both found the     *)
(* event approved): exactly one succeeds, the other fails with Conflict,   *)
(* and attendees_count ends 1 higher, that is at 1.                        *)
(* (SpecConc; fails on the code.)                                          *)
(***************************************************************************)
C3_OneOfTwoInterestsWins ==
    \A r1, r2 \in Req :
        ( /\ r1 # r2
          /\ \A r \in Req \ {r1, r2} : reqs[r].pc = "idle"
          /\ reqs[r1].pc = "done" /\ reqs[r2].pc = "done"
          /\ reqs[r1].op = "interest" /\ reqs[r2].op = "interest"
          /\ reqs[r1].user = reqs[r2].user
          /\ reqs[r1].resp.detail # "Cannot show interest in an unapproved event"
          /\ reqs[r2].resp.detail # "Cannot show interest in an unapproved event" )
        => /\ \/ reqs[r1].resp.status = 200 /\ Conflict(reqs[r2].resp)
              \/ reqs[r2].resp.status = 200 /\ Conflict(reqs[r1].resp)
           /\ event.attendees_count = 1

(***************************************************************************)
(* C4.  attendees_count is never negative, whatever the sequence of        *)
(* markInterest, confirmRegistration, registerDirect and                   *)
(* cancelRegistration calls.  (Spec; fails on the code.)                   *)
(***************************************************************************)
C4_CounterNeverNegative == event.attendees_count >= 0

(***************************************************************************)
(* C5.  A confirmRegistration whose count differs from the number of names *)
(* fails with a validation error (422) and changes neither a registration  *)
(* nor attendees_count; stated for the requests nothing else stops (the    *)
(* user's registration is INTERESTED, the clock inside the registration    *)
(* window).  (Spec; fails on the code.)                                    *)
(***************************************************************************)
C5_MismatchIsValidationError ==
    \A u \in Users, p \in Payloads, t \in Instants :
        \A x \in first(regs, u) :
            ( /\ p.number_of_attendees # Len(p.attendees)
              /\ x.status = "interested"
              /\ InWindow(event, t) )
            => LET s == run("confirm", Database, x, u, p, t)
               IN  /\ s.resp.status = 422
                   /\ s.event = event
                   /\ s.regs = regs

(***************************************************************************)
(* C6.  Every registration row has number_of_attendees equal to the length *)
(* of its attendee list, and between 1 and 10.  (Spec; fails on the code.) *)
(***************************************************************************)
C6_CountMatchesNames ==
    \A i \in 1..Len(regs) :
        /\ regs[i].number_of_attendees = Len(regs[i].attendees)
        /\ 1 <= regs[i].number_of_attendees
        /\ regs[i].number_of_attendees <= MaxAttendees

(***************************************************************************)
(* C7.  cancelRegistration answers 404 "Registration not found" when the   *)
(* user has no registration or only a cancelled one, and then changes no   *)
(* registration, no notification and not attendees_count; so a cancel      *)
(* right after a successful cancel of the same user fails that way.  (Spec)*)
(***************************************************************************)
CancelRefused(db, x, u) ==
    LET s == run("cancel", db, x, u, NoPayload, 0)
    IN  /\ s.resp = Response("cancel", u, 404, "Registration not found")
        /\ s.event = db.event
        /\ s.regs = db.regs
        /\ s.notifications = db.notifications

C7_CancelWithoutActiveIsNotFound ==
    \A u \in Users :
        \A x \in first(regs, u) :
            IF ActiveRowsOf(regs, u) = {}
            THEN CancelRefused(Database, x, u)
            ELSE LET s1 == run("cancel", Database, x, u, NoPayload, 0)
                 IN  /\ s1.resp.status = 200
                     /\ \A x1 \in first(s1.regs, u) : CancelRefused(s1, x1, u)

\* a user whose registration has been cancelled: a further cancel is refused
C7_Witness ==
    \E u \in Users :
        /\ RowsOf(regs, u) # {}
        /\ \A i \in RowsOf(regs, u) : regs[i].status = "cancelled"

(***************************************************************************)
(* C8.  From an approved event with attendees_count 0 and no registration  *)
(* of the user, inside the registration window: markInterest gives         *)
(* INTERESTED and counter 1; confirmRegistration with 3 names then gives   *)
(* REGISTERED and counter 3; cancelRegistration then gives CANCELLED and   *)
(* counter 0.  (Spec)                                                      *)
(***************************************************************************)
C8_InterestConfirmCancel ==
    \A u \in Users :
        (event.is_approved /\ event.attendees_count = 0 /\ RowsOf(regs, u) = {})
        => LET s1 == run("interest", Database, NoRow, u, NoPayload, 0)
               three == [number_of_attendees |-> 3, attendees |-> Repeat(NameA, 3)]
           IN  /\ s1.resp.status = 200
               /\ \A x1 \in first(s1.regs, u) :
                    /\ x1.status = "interested"
                    /\ s1.event.attendees_count = 1
                    /\ \A t \in {i \in Instants : InWindow(event, i)} :
                         LET s2 == run("confirm", s1, x1, u, three, t)
                         IN  /\ s2.resp.status = 200
                             /\ \A x2 \in first(s2.regs, u) :
                                  /\ x2.status = "registered"
                                  /\ s2.event.attendees_count = 3
                                  /\ LET s3 == run("cancel", s2, x2, u, NoPayload, 0)
                                     IN  /\ s3.resp.status = 200
                                         /\ \A x3 \in first(s3.regs, u) :
                                               x3.status = "cancelled"
                                         /\ s3.event.attendees_count = 0

\* the state the three calls end in: three names cancelled, counter back at 0
C8_Witness ==
    \E u \in Users :
        /\ event.attendees_count = 0
        /\ Len(regs) = 1
        /\ \E i \in RowsOf(regs, u) :
              /\ regs[i].status = "cancelled"
              /\ regs[i].number_of_attendees = 3
              /\ Len(regs[i].attendees) = 3

(***************************************************************************)
(* C9.  For a user whose registration is INTERESTED, cancelRegistration    *)
(* followed by markInterest leaves one registration row of the user, with  *)
(* status INTERESTED, and attendees_count at its value before the cancel.  *)
(* (Spec; fails on the code.)                                              *)
(***************************************************************************)
C9_CancelThenInterestRestores ==
    \A u \in Users :
        \A x \in first(regs, u) :
            (x.status = "interested" /\ event.is_approved)
            => LET s1 == run("cancel", Database, x, u, NoPayload, 0)
               IN  \A x1 \in first(s1.regs, u) :
                     LET s2 == run("interest", s1, x1, u, NoPayload, 0)
                     IN  /\ Cardinality(RowsOf(s2.regs, u)) = 1
                         /\ \A x2 \in first(s2.regs, u) : x2.status = "interested"
                         /\ s2.event.attendees_count = event.attendees_count

(***************************************************************************)
(* C10.  When markInterest reactivates a cancelled registration, the       *)
(* registration afterwards is INTERESTED with attendee list [user] and     *)
(* number_of_attendees 1, and attendees_count is 1 higher.                 *)
(* (Spec; fails on the code.)                                              *)
(***************************************************************************)
C10_ReactivationResetsAttendees ==
    \A u \in Users :
        \A x \in first(regs, u) :
            (x.status = "cancelled" /\ event.is_approved)
            => LET s == run("interest", Database, x, u, NoPayload, 0)
               IN  /\ s.resp.status = 200
                   /\ \A x1 \in first(s.regs, u) :
                         /\ x1.status = "interested"
                         /\ x1.attendees = <<Username(u)>>
                         /\ x1.number_of_attendees = 1
                   /\ s.event.attendees_count = event.attendees_count + 1

(***************************************************************************)
(* C11.  markInterest fails with Conflict whenever the user already has an *)
(* interested or registered registration for the event, and the failing    *)
(* call changes neither the registrations nor attendees_count.             *)
(* (SpecEvents; as stated)                                                 *)
(***************************************************************************)
C11_InterestConflictWheneverActive ==
    \A u \in Users :
        ActiveRowsOf(regs, u) # {}
        => \A x \in first(regs, u) :
              LET s == run("interest", Database, x, u, NoPayload, 0)
              IN  /\ Conflict(s.resp)
                  /\ s.regs = regs
                  /\ s.event = event

(***************************************************************************)
(* C11, amended.  On an approved event markInterest fails with Conflict    *)
(* whenever the user already has an interested or registered registration; *)
(* on an event that is not approved it fails with the error of the         *)
(* unapproved event instead.  Either way the failing call changes neither  *)
(* the registrations nor attendees_count.  (SpecEvents)                    *)
(***************************************************************************)
C11_InterestConflictOnApproved ==
    \A u \in Users :
        ActiveRowsOf(regs, u) # {}
        => \A x \in first(regs, u) :
              LET s == run("interest", Database, x, u, NoPayload, 0)
              IN  /\ s.resp.status = 400
                  /\ event.is_approved => Conflict(s.resp)
                  /\ ~event.is_approved =>
                        s.resp.detail = "Cannot show interest in an unapproved event"
                  /\ s.regs = regs
                  /\ s.event = event

\* a registered user of an approved event whose markInterest is a Conflict
C11_Witness ==
    \E u \in Users :
        /\ event.is_approved
        /\ \E i \in RowsOf(regs, u) : regs[i].status = "registered"
        /\ \A x \in first(regs, u) :
              Conflict(run("interest", Database, x, u, NoPayload, 0).resp)

(***************************************************************************)
(* C12.  markInterest on an event that is not approved fails with          *)
(* InvalidState, creates or reactivates no registration and leaves         *)
(* attendees_count unchanged, whether or not the user has a cancelled      *)
(* registration for the event.  (SpecEvents)                               *)
(***************************************************************************)
C12_InterestRefusedWhenUnapproved ==
    \A u \in Users :
        (event # NoEvent /\ ~event.is_approved)
        => \A x \in first(regs, u) :
              LET s == run("interest", Database, x, u, NoPayload, 0)
              IN  /\ s.resp.status = 400
                  /\ s.resp.detail = "Cannot show interest in an unapproved event"
                  /\ s.regs = regs
                  /\ s.event = event

\* an unapproved event and a user with a cancelled registration, refused
C12_Witness ==
    \E u \in Users :
        /\ event # NoEvent
        /\ ~event.is_approved
        /\ \E i \in RowsOf(regs, u) : regs[i].status = "cancelled"
        /\ \A x \in first(regs, u) :
              run("interest", Database, x, u, NoPayload, 0).resp.status = 400

(***************************************************************************)
(* C13.  confirmRegistration passes its time check exactly when            *)
(* registration_start - 24h <= now <= registration_end + 24h, both bounds  *)
(* included: inside, the confirm of an INTERESTED user succeeds; outside,  *)
(* every confirm fails and leaves the registrations and attendees_count    *)
(* unchanged.  The bodies are those that pass validation and so reach the  *)
(* handler.  (SpecEvents)                                                  *)
(***************************************************************************)
InBufferedWindow(ev, t) ==
    /\ ev.registration_start - BufferHours <= t
    /\ t <= ev.registration_end + BufferHours

\* the clock readings of the model and the hours next to the two bounds
NearInstants(ev) ==
    Instants \cup {ev.registration_start - BufferHours - 1,
                   ev.registration_start - BufferHours + 1,
                   ev.registration_end + BufferHours - 1,
                   ev.registration_end + BufferHours + 1}

\* the bodies that FastAPI hands to the handler
ValidPayloads == {p \in Payloads : EventRegistrationCreate(p)}

C13_ConfirmWindowHasBuffer ==
    event # NoEvent =>
        \A u \in Users, p \in ValidPayloads, t \in NearInstants(event) :
            \A x \in first(regs, u) :
                LET s == run("confirm", Database, x, u, p, t)
                IN  /\ (InBufferedWindow(event, t) /\ x.status = "interested")
                       => s.resp.status = 200
                    /\ ~InBufferedWindow(event, t)
                       => /\ s.resp.status = 400
                          /\ s.resp.detail = "Registration is not open for this event"
                          /\ s.regs = regs
                          /\ s.event = event

\* an INTERESTED user whose confirm passes on both bounds and fails an hour
\* outside either
C13_Witness ==
    /\ event # NoEvent
    /\ \E u \in Users : \E i \in RowsOf(regs, u) :
          LET p == [number_of_attendees |-> 1, attendees |-> <<NameA>>]
              at(t) == run("confirm", Database, regs[i], u, p, t).resp.status
          IN  /\ regs[i].status = "interested"
              /\ at(event.registration_start - BufferHours) = 200
              /\ at(event.registration_end + BufferHours) = 200
              /\ at(event.registration_start - BufferHours - 1) = 400
              /\ at(event.registration_end + BufferHours + 1) = 400

(***************************************************************************)
(* C14.  confirmRegistration fails when the user has no registration for   *)
(* the event, a cancelled one, or one that is already REGISTERED, and then *)
(* changes no registration and leaves attendees_count unchanged; it        *)
(* succeeds only from INTERESTED.  (Spec)                                  *)
(***************************************************************************)
C14_ConfirmOnlyFromInterested ==
    \A u \in Users, p \in Payloads, t \in Instants :
        \A x \in first(regs, u) :
            LET s == run("confirm", Database, x, u, p, t)
                reached == /\ event # NoEvent
                           /\ EventRegistrationCreate(p)
                           /\ InBufferedWindow(event, t)
            IN  x.status # "interested"
                => /\ s.resp.status \in {400, 404, 422}
                   /\ s.regs = regs
                   /\ s.event = event
                   /\ (reached /\ x.status \in {"none", "cancelled"})
                      => s.resp.detail = "You must first mark interest in this event"
                   /\ (reached /\ x.status = "registered")
                      => s.resp.detail = "You are already registered for this event"

\* a user with a cancelled registration whose confirm, body valid and window
\* open, is refused
C14_Witness ==
    \E u \in Users : \E i \in RowsOf(regs, u) :
        /\ regs[i].status = "cancelled"
        /\ \E t \in Instants :
              /\ InBufferedWindow(event, t)
              /\ run("confirm", Database, regs[i], u,
                     [number_of_attendees |-> 1, attendees |-> <<NameA>>],
                     t).resp.detail = "You must first mark interest in this event"

(***************************************************************************)
(* C15.  registerDirect fails with Conflict exactly when the user has an   *)
(* interested or registered registration for the event; when the user's    *)
(* only registration is cancelled (event approved, window open, body       *)
(* valid) it succeeds, gives a REGISTERED registration and adds the full   *)
(* count to attendees_count.  Success is read off the database: what the   *)
(* request committed, whatever the response after the commit.  (Spec)      *)
(***************************************************************************)
C15_RegisterConflictOnlyWhenActive ==
    \A u \in Users, p \in ValidPayloads, t \in Instants :
        (event.is_approved /\ InWindow(event, t))
        => \A x \in first(regs, u) :
              LET s == run("register", Database, x, u, p, t)
              IN  /\ Conflict(s.resp) <=> ActiveRowsOf(regs, u) # {}
                  /\ ActiveRowsOf(regs, u) = {}
                     => /\ \E i \in ActiveRowsOf(s.regs, u) :
                              /\ s.regs[i].status = "registered"
                              /\ s.regs[i].number_of_attendees = p.number_of_attendees
                        /\ s.event.attendees_count =
                              event.attendees_count + p.number_of_attendees

(***************************************************************************)
(* C16.  registerDirect applies the time window of confirmRegistration:    *)
(* for the event and every time now, registerDirect passes its time check  *)
(* if and only if confirmRegistration does, that is if and only if         *)
(* registration_start - 24h <= now <= registration_end + 24h.  (Spec)      *)
(***************************************************************************)
C16_RegisterWindowIsConfirmWindow ==
    (event # NoEvent /\ event.is_approved)
    => \A t \in NearInstants(event) :
          /\ register_event_check(event, t) = "pass"
                <=> confirm_event_check(event, t) = "pass"
          /\ register_event_check(event, t) = "pass"
                <=> InBufferedWindow(event, t)

(***************************************************************************)
(* C17.  No single operation changes a registration's status from          *)
(* CANCELLED to REGISTERED: the only status change out of CANCELLED is to  *)
(* INTERESTED through markInterest, and CANCELLED is entered only from     *)
(* INTERESTED or REGISTERED through cancelRegistration.  (SpecEvents)      *)
(***************************************************************************)
\* the status changes a request makes to the rows of rs, rs1 being the rows
\* after it
StatusChangesAllowed(op, rs, rs1) ==
    /\ \A i \in 1..Len(rs) :
          i <= Len(rs1) =>
             /\ (rs[i].status = "cancelled" /\ rs1[i].status # "cancelled")
                => (op = "interest" /\ rs1[i].status = "interested")
             /\ (rs[i].status # "cancelled" /\ rs1[i].status = "cancelled")
                => (op = "cancel" /\ rs[i].status \in {"interested", "registered"})
    /\ \A i \in (Len(rs) + 1)..Len(rs1) : rs1[i].status # "cancelled"

C17_NoCancelledToRegistered ==
    /\ \A op \in Ops, u \in Users, p \in Payloads :
          \A t \in Clock(op, p), x \in first(regs, u) :
             \A nw \in NotificationWrite(op, event, p, t) :
                StatusChangesAllowed(op, regs,
                    serve(op, Database, x, u, p, t, nw).regs)
    /\ \A caller \in Callers, form \in Forms, nw \in BOOLEAN :
          StatusChangesAllowed("update", regs,
              update_event_out(Database, caller, form, nw).regs)

\* a cancelled registration: markInterest makes it INTERESTED, register and
\* confirm leave it CANCELLED
C17_Witness ==
    \E u \in Users : \E i \in RowsOf(regs, u) :
        LET p == [number_of_attendees |-> 1, attendees |-> <<NameA>>]
            t == event.registration_start
        IN  /\ regs[i].status = "cancelled"
            /\ event.is_approved
            /\ run("interest", Database, regs[i], u, NoPayload, 0).regs[i].status
                  = "interested"
            /\ run("confirm", Database, regs[i], u, p, t).regs[i].status
                  = "cancelled"
            /\ run("register", Database, regs[i], u, p, t).regs[i].status
                  = "cancelled"

(***************************************************************************)
(* C18.  After a successful event update every user with an interested or  *)
(* registered registration for the event holds a stored notification of    *)
(* type update, and after a successful event delete every such user holds  *)
(* a stored notification of type cancellation, once the commit is done and *)
(* the delete has cascaded.  (SpecEvents)                                  *)
(***************************************************************************)
Holds(ns, u, type) == [user_id |-> u, notification_type |-> type] \in ns

C18_RegistrantsHoldNotification ==
    \A caller \in Callers, form \in Forms, nw \in BOOLEAN :
        LET upd == update_event_out(Database, caller, form, nw)
            del == delete_event_out(Database, caller, nw)
        IN  /\ upd.resp.status = 200
               => \A u \in Users :
                     ActiveRowsOf(regs, u) # {} => Holds(upd.notifications, u, "update")
            /\ del.resp.status = 200
               => \A u \in Users :
                     ActiveRowsOf(regs, u) # {}
                        => Holds(del.notifications, u, "cancellation")

(***************************************************************************)
(* C19.  If the write of the reminder notification fails during            *)
(* confirmRegistration or registerDirect, the registration's new status,   *)
(* attendee list and count and the event's new attendees_count stay        *)
(* committed: the failure does not roll the registration back.             *)
(* (SpecEvents)                                                            *)
(***************************************************************************)
\* the user's row after the request is REGISTERED with the names and count of p
RegisteredAs(rs, u, p) ==
    \E i \in RowsOf(rs, u) :
        /\ rs[i].status = "registered"
        /\ rs[i].attendees = p.attendees
        /\ rs[i].number_of_attendees = p.number_of_attendees

C19_ReminderFailureKeepsRegistration ==
    \A u \in Users, p \in ValidPayloads, t \in Instants :
        reminder(event, u, t) # {}
        => \A x \in first(regs, u) :
              LET c == serve("confirm", Database, x, u, p, t, FALSE)
                  r == serve("register", Database, x, u, p, t, FALSE)
              IN  /\ (x.status = "interested" /\ InBufferedWindow(event, t))
                     => /\ c.resp.status = 500
                        /\ RegisteredAs(c.regs, u, p)
                        /\ c.event.attendees_count =
                              (event.attendees_count - x.number_of_attendees)
                                  + p.number_of_attendees
                        /\ ~Holds(c.notifications \ notifications, u, "reminder")
                  /\ (x = NoRow /\ event.is_approved /\ InWindow(event, t))
                     => /\ r.resp.status = 500
                        /\ RegisteredAs(r.regs, u, p)
                        /\ r.event.attendees_count =
                              event.attendees_count + p.number_of_attendees
                        /\ ~Holds(r.notifications \ notifications, u, "reminder")

\* an INTERESTED user whose confirm, at a time when the reminder is due and
\* its write fails, ends as a 500 with the registration committed
C19_Witness ==
    \E u \in Users, t \in Instants :
        /\ reminder(event, u, t) # {}
        /\ InWindow(event, t)
        /\ \E i \in RowsOf(regs, u) :
              /\ regs[i].status = "interested"
              /\ LET p == [number_of_attendees |-> 1, attendees |-> <<NameA>>]
                     c == serve("confirm", Database, regs[i], u, p, t, FALSE)
                 IN  /\ c.resp.status = 500
                     /\ RegisteredAs(c.regs, u, p)

(***************************************************************************)
(* C20.  Notifying the registrants is best-effort: if the write of a       *)
(* registrant's notification fails during update_event or delete_event,    *)
(* the update or the deletion of the event is committed all the same.      *)
(* (SpecEvents)                                                            *)
(***************************************************************************)
C20_EventMutationSurvivesNotifyFailure ==
    (event # NoEvent /\ regs # <<>>)
    => \A caller \in Callers \ {"other"}, form \in Forms :
          LET upd == update_event_out(Database, caller, form, FALSE)
              del == delete_event_out(Database, caller, FALSE)
          IN  /\ upd.event = update_event_out(Database, caller, form, TRUE).event
              /\ caller = "organizer" => ~upd.event.is_approved
              /\ del.event = NoEvent

(***************************************************************************)
(* C21.  When registration mutations (markInterest, confirm, cancel) of    *)
(* two different users on the event are served concurrently, then after    *)
(* both have committed attendees_count equals the sum of                   *)
(* number_of_attendees over the interested and registered registrations:   *)
(* no increment or decrement is lost in any interleaving.                  *)
(* (SpecConc; fails on the code.)                                          *)
(***************************************************************************)
C21_NoLostCounterUpdate ==
    \A r1, r2 \in Req :
        ( /\ r1 # r2
          /\ \A r \in Req \ {r1, r2} : reqs[r].pc = "idle"
          /\ reqs[r1].pc = "done" /\ reqs[r2].pc = "done"
          /\ reqs[r1].op \in {"interest", "confirm", "cancel"}
          /\ reqs[r2].op \in {"interest", "confirm", "cancel"}
          /\ reqs[r1].user # reqs[r2].user
          /\ reqs[r1].resp.status = 200
          /\ reqs[r2].resp.status = 200 )
        => event.attendees_count = ActiveSum(regs)

(***************************************************************************)
(* C22.  No registration becomes REGISTERED while its event is unapproved: *)
(* once the event has lost its approval (an update by an organizer who is  *)
(* neither verified nor admin), a confirmRegistration fails and changes    *)
(* nothing, as markInterest and registerDirect do on an unapproved event.  *)
(* (SpecEvents; fails on the code.)                                        *)
(***************************************************************************)
C22_NoConfirmWhileUnapproved ==
    (event # NoEvent /\ ~event.is_approved)
    => \A u \in Users, p \in ValidPayloads, t \in Instants :
          \A x \in first(regs, u) :
             LET c == run("confirm", Database, x, u, p, t)
                 i == run("interest", Database, x, u, NoPayload, 0)
                 r == run("register", Database, x, u, p, t)
             IN  /\ c.resp.status # 200 /\ c.regs = regs /\ c.event = event
                 /\ i.resp.status # 200 /\ i.regs = regs /\ i.event = event
                 /\ r.resp.status # 200 /\ r.regs = regs /\ r.event = event

====
